---- MODULE Spec2Model ----
(***************************************************************************)
(* LexAI: the Flask request orchestrator (src/app.py), its configuration   *)
(* (src/config.py) and the Firebase module state (src/firebase_config.py). *)
(*                                                                         *)
(* Python strings whose characters matter (texts, file names, vocabulary   *)
(* terms) are sequences of one-character strings, so that len(), lower(),  *)
(* rsplit() and the substring test `in` are computed, not assumed.         *)
(* compliance_score is a float with two decimals in the code; it is kept   *)
(* here in hundredths (0.85 is 85): n/100 and the literal 0.85 round to    *)
(* the same double, so the integer comparison is the float comparison.     *)
(***************************************************************************)
EXTENDS Integers, Sequences, FiniteSets, TLC

VARIABLES
    uploads,    \* files present in app.config['UPLOAD_FOLDER'] (set of paths)
    last,       \* the last request handled: inputs, response, and event log
    session,    \* flask.session of the client: a function key -> value
    fb,         \* module globals of firebase_config (and its presence in sys.modules)
    users,      \* Firestore collection 'users': uid -> document
    vtext,      \* validator run: the text handed to get_legal_bert_validation
    vtype,      \* validator run: the analysis_type handed to it
    vreport,    \* validator run: the report it returned
    vprev,      \* validator run: length and score of the previous call
    inflight,   \* concurrent uploads: client -> position and locals of its handler
    disk,       \* concurrent uploads: path in UPLOAD_FOLDER -> what was written there
    signins     \* concurrent sign-ins: client -> position and locals of its handler

vars == <<uploads, last, session, fb, users, vtext, vtype, vreport, vprev,
         inflight, disk, signins>>

(***************************************************************************)
(* Bounds of the model.                                                    *)
(***************************************************************************)
\* longest run of filler characters appended to a text
MaxPad == 101
\* files the upload folder may hold before uploads are no longer explored
MaxUploads == 2
\* distinct values uuid.uuid4() is drawn from
MaxUuid == 2
\* loginCount values explored in the users collection
MaxLogin == 2
\* requests handled at the same time by the threaded server
MaxClients == 2

(***************************************************************************)
(* Python string helpers.                                                  *)
(***************************************************************************)
UpperChars == <<"A","B","C","D","E","F","G","H","I","J","K","L","M",
                "N","O","P","Q","R","S","T","U","V","W","X","Y","Z">>
LowerChars == <<"a","b","c","d","e","f","g","h","i","j","k","l","m",
                "n","o","p","q","r","s","t","u","v","w","x","y","z">>

UpperSet == {UpperChars[i] : i \in 1..Len(UpperChars)}
LowerSet == {LowerChars[i] : i \in 1..Len(LowerChars)}

ToLower == [c \in UpperSet |-> LowerChars[CHOOSE i \in 1..Len(UpperChars) : UpperChars[i] = c]]
ToUpper == [c \in LowerSet |-> UpperChars[CHOOSE i \in 1..Len(LowerChars) : LowerChars[i] = c]]

\* str.lower() on one character
LowerChar(c) == IF c \in UpperSet THEN ToLower[c] ELSE c

\* str.upper() on one character
UpperChar(c) == IF c \in LowerSet THEN ToUpper[c] ELSE c

\* str.lower()
Lower(s) == [i \in 1..Len(s) |-> LowerChar(s[i])]

\* the Python test `needle in hay` on strings
Contains(hay, needle) ==
    \/ needle = << >>
    \/ \E i \in 1..(Len(hay) - Len(needle) + 1) :
          /\ hay[i] = needle[1]
          /\ SubSeq(hay, i, i + Len(needle) - 1) = needle

Min(a, b) == IF a < b THEN a ELSE b
Max(a, b) == IF a > b THEN a ELSE b

\* Python None
None == "None"

(***************************************************************************)
(* get_legal_bert_validation (src/app.py:52-87).                           *)
(***************************************************************************)
T_agreement == <<"a","g","r","e","e","m","e","n","t">>
T_contract == <<"c","o","n","t","r","a","c","t">>
T_party == <<"p","a","r","t","y">>
T_liability == <<"l","i","a","b","i","l","i","t","y">>
T_indemnity == <<"i","n","d","e","m","n","i","t","y">>
T_term == <<"t","e","r","m">>
T_clause == <<"c","l","a","u","s","e">>
T_herein == <<"h","e","r","e","i","n">>
T_pursuant == <<"p","u","r","s","u","a","n","t">>
T_warrant == <<"w","a","r","r","a","n","t">>

common_terms == <<T_agreement, T_contract, T_party, T_liability, T_indemnity,
                  T_term, T_clause, T_herein, T_pursuant, T_warrant>>

\* the clamp bounds and the two cut points, in hundredths
ScoreCeil == 95
ScoreFloor == 35
ValidCut == 85
ReviewCut == 65

\* the score is taken from the length itself, not from its last two digits
compliance_score_no_modulo(text) == Min(ScoreCeil, Max(ScoreFloor, Len(text)))

\* min(0.95, max(0.35, (text_length % 100) / 100)), in hundredths
compliance_score(text) == Min(ScoreCeil, Max(ScoreFloor, Len(text) % 100))

\* the cut points are taken inclusively (>= instead of >)
classify_inclusive(score) ==
    IF score >= ValidCut THEN <<"valid", 0>>
    ELSE IF score >= ReviewCut THEN <<"review_recommended", 2>>
    ELSE <<"potential_issues", 5>>

\* the if / elif / else on the score: <<status, red_flags>>
classify(score) ==
    IF score > ValidCut THEN <<"valid", 0>>
    ELSE IF score > ReviewCut THEN <<"review_recommended", 2>>
    ELSE <<"potential_issues", 5>>

\* for term in common_terms: if term in text.lower(): legal_terms.append(term)
\* the scan stops at the first term it finds
RECURSIVE legal_terms_first_only(_, _)
legal_terms_first_only(lowered, i) ==
    IF i > Len(common_terms) THEN << >>
    ELSE IF Contains(lowered, common_terms[i]) THEN <<common_terms[i]>>
    ELSE legal_terms_first_only(lowered, i + 1)

\* (lowered is text.lower())
RECURSIVE legal_terms(_, _)
legal_terms(lowered, i) ==
    IF i > Len(common_terms) THEN << >>
    ELSE (IF Contains(lowered, common_terms[i])
          THEN <<common_terms[i]>> ELSE << >>) \o legal_terms(lowered, i + 1)

\* the terms are looked up in the text as written, without lower()
get_legal_bert_validation_case_sensitive(text, analysis_type) ==
    LET score == compliance_score(text)
        cls == classify(score)
    IN [compliance_status |-> cls[1],
        compliance_score |-> score,
        legal_terms_found |-> legal_terms(text, 1),
        red_flags_count |-> cls[2]]

get_legal_bert_validation(text, analysis_type) ==
    LET score == compliance_score(text)
        cls == classify(score)
        lowered == Lower(text)
    IN [compliance_status |-> cls[1],
        compliance_score |-> score,
        legal_terms_found |-> legal_terms(lowered, 1),
        red_flags_count |-> cls[2]]

(***************************************************************************)
(* Inputs: texts.                                                          *)
(***************************************************************************)
TextContract == <<"T","h","i","s"," ","a","g","r","e","e","m","e","n","t"," ","i","s"," ","a"," ","c","o","n","t","r","a","c","t"," ","b","e","t","w","e","e","n"," ","p","a","r","t","i","e","s",".">>
TextMixed == <<"P","u","r","s","u","a","n","t"," ","t","o"," ","t","h","e"," ","C","O","N","T","R","A","C","T",","," ","e","a","c","h"," ","P","a","r","t","y">>
TextTerms == <<"W","a","r","r","a","n","t","y"," ","t","e","r","m","s"," ","h","e","r","e","i","n">>
TextEmpty == << >>

Phrases == {TextEmpty, TextContract, TextMixed, TextTerms}

\* n filler characters
Pad(n) == [i \in 1..n |-> "x"]

AnalysisTypes == {"summary", "compliance"}


(***************************************************************************)
(* File names and extensions, as character sequences.                      *)
(***************************************************************************)
EXT_TXT == <<"t","x","t">>
EXT_PDF == <<"p","d","f">>
EXT_DOC == <<"d","o","c">>
EXT_DOCX == <<"d","o","c","x">>
EXT_RTF == <<"r","t","f">>
FN_EMPTY == << >>
FN_UPPER_TXT == <<"a",".","T","X","T">>
FN_EXE == <<"a",".","e","x","e">>
FN_NOEXT == <<"n","o","t","e","s">>
FN_TXT_EXE == <<"a",".","t","x","t",".","e","x","e">>
FN_TRAILING_DOT == <<"a",".">>
FN_DOT_DOCX == <<".","d","o","c","x">>

(***************************************************************************)
(* Request data.  A JSON body or a form is a function from its keys to     *)
(* their values; request.json of a request without a JSON body is None.    *)
(***************************************************************************)
EmptyDict == [k \in {} |-> None]

\* dict.get(key) / dict.get(key, default)
Get(d, k, default) == IF k \in DOMAIN d THEN d[k] ELSE default

\* `not data` for data = request.json
NotData(req) == ~req.has_json \/ DOMAIN req.json = {}

\* d[k] = v on a dict
Put(d, k, v) == [x \in (DOMAIN d) \cup {k} |-> IF x = k THEN v ELSE d[x]]

(***************************************************************************)
(* allowed_file (src/app.py:32-35) with ALLOWED_EXTENSIONS of              *)
(* src/config.py:31, and the file-name handling of analyze_document.       *)
(***************************************************************************)
ALLOWED_EXTENSIONS == {EXT_TXT, EXT_PDF, EXT_DOC, EXT_DOCX, EXT_RTF}

HasDot(filename) == \E i \in 1..Len(filename) : filename[i] = "."

\* filename.rsplit('.', 1)[1], for a file name that has a dot
rsplit_ext(filename) ==
    LET d == CHOOSE i \in 1..Len(filename) :
                 /\ filename[i] = "."
                 /\ \A j \in (i+1)..Len(filename) : filename[j] # "."
    IN SubSeq(filename, d + 1, Len(filename))

\* the extension is taken after the first dot: filename.split('.')[1]
allowed_file_first_dot(filename) ==
    /\ HasDot(filename)
    /\ LET d == CHOOSE i \in 1..Len(filename) :
                    /\ filename[i] = "."
                    /\ \A j \in 1..(i-1) : filename[j] # "."
           rest == SubSeq(filename, d + 1, Len(filename))
           e == IF HasDot(rest)
                THEN SubSeq(rest, 1, (CHOOSE i \in 1..Len(rest) :
                                         /\ rest[i] = "."
                                         /\ \A j \in 1..(i-1) : rest[j] # ".") - 1)
                ELSE rest
       IN Lower(e) \in ALLOWED_EXTENSIONS

allowed_file(filename) ==
    /\ HasDot(filename)
    /\ Lower(rsplit_ext(filename)) \in ALLOWED_EXTENSIONS

\* werkzeug's secure_filename on names of letters and dots: .strip("._")
RECURSIVE secure_filename(_)
secure_filename(s) ==
    IF s = << >> THEN s
    ELSE IF s[1] \in {".", "_"} THEN secure_filename(Tail(s))
    ELSE IF s[Len(s)] \in {".", "_"} THEN secure_filename(SubSeq(s, 1, Len(s) - 1))
    ELSE s

FileNames == {FN_EMPTY, FN_UPPER_TXT, FN_EXE, FN_NOEXT, FN_TXT_EXE,
              FN_TRAILING_DOT, FN_DOT_DOCX}

Uuids == 1..MaxUuid

\* the path is built from the file name alone
file_path_name_only(uuid, filename) == <<1, filename>>

\* os.path.join(UPLOAD_FOLDER, f"{uuid.uuid4()}_{filename}")
file_path(uuid, filename) == <<uuid, filename>>

(***************************************************************************)
(* The collaborators of utils/ (document_parser, gemini_api), by their     *)
(* interface: the text extractor returns a text or raises, the LLM client  *)
(* returns the generated text or raises.                                   *)
(***************************************************************************)
Texts == {TextEmpty, TextContract}

ExtractOutcomes ==
    {[ok |-> TRUE, text |-> t] : t \in Texts} \cup {[ok |-> FALSE, text |-> << >>]}

LlmOutcomes == {"ok", "raise"}

\* file.save(file_path): written, failed with nothing written, or failed
\* after the destination was created
SaveOutcomes == {"ok", "raise", "raise_partial"}

LLM_TEXT == "generated text"

ErrorBody(msg) == [status |-> "error", message |-> msg]

NoRequest ==
    [endpoint |-> "none", request |-> EmptyDict, code |-> 0, body |-> EmptyDict,
     log |-> << >>, prompt |-> EmptyDict]

(***************************************************************************)
(* analyze_document (src/app.py:149-209).  The result is the response,     *)
(* the events of the request in order, and the upload folder afterwards.   *)
(***************************************************************************)
\* get_legal_bert_validation(text, analysis_type) for the texts and analysis
\* types that requests carry, evaluated once
validation_table ==
    [t \in Texts |-> [a \in AnalysisTypes |-> get_legal_bert_validation(t, a)]]

\* the handler repeats a failed LLM call once
analyze_tail_retry(kind, text, analysis_type, name, llm, log0) ==
    LET prompt == [kind |-> kind, analysis_type |-> analysis_type, text |-> text]
    IN IF llm = "raise"
       THEN [code |-> 500, body |-> ErrorBody("upstream"),
             log |-> log0 \o <<"llm_call", "llm_raise", "llm_call", "llm_raise">>,
             prompt |-> prompt]
       ELSE [code |-> 200,
             body |-> [status |-> "success",
                       document_name |-> name,
                       document_length |-> Len(text),
                       analysis_type |-> analysis_type,
                       result |-> LLM_TEXT,
                       legal_bert_validation |->
                           validation_table[text][analysis_type],
                       timestamp |-> "now"],
             log |-> log0 \o <<"llm_call", "llm_return", "validate">>,
             prompt |-> prompt]

\* the shared tail of analyze_document (186-209) and analyze_text (225-248):
\* prompt, one LLM call, validation, envelope
analyze_tail(kind, text, analysis_type, name, llm, log0) ==
    LET prompt == [kind |-> kind, analysis_type |-> analysis_type, text |-> text]
    IN IF llm = "raise"
       THEN [code |-> 500, body |-> ErrorBody("upstream"),
             log |-> log0 \o <<"llm_call", "llm_raise">>, prompt |-> prompt]
       ELSE [code |-> 200,
             body |-> [status |-> "success",
                       document_name |-> name,
                       document_length |-> Len(text),
                       analysis_type |-> analysis_type,
                       result |-> LLM_TEXT,
                       legal_bert_validation |->
                           validation_table[text][analysis_type],
                       timestamp |-> "now"],
             log |-> log0 \o <<"llm_call", "llm_return", "validate">>,
             prompt |-> prompt]

Reject(code, msg) ==
    [code |-> code, body |-> ErrorBody(msg), log |-> << >>, prompt |-> EmptyDict]

\* lines 153-175: the three checks made before anything is written or called;
\* the message of the check that fails, or "ok"
check_upload(req) ==
    IF ~req.has_document THEN "No document part in the request"
    ELSE IF req.filename = << >> THEN "No file selected"
    ELSE IF ~allowed_file(req.filename) THEN "File type not allowed"
    ELSE "ok"

analyze_document_result(req, uuid, save, ext, llm, files) ==
    IF check_upload(req) # "ok"
    THEN Reject(400, check_upload(req)) @@ [uploads |-> files]
    ELSE
      LET analysis_type == Get(req.form, "analysis_type", "summary")
          filename == secure_filename(req.filename)
          path == file_path(uuid, filename)
      IN IF save # "ok"
         THEN [code |-> 500, body |-> ErrorBody("save failed"),
               log |-> <<"save_raise">>, prompt |-> EmptyDict,
               uploads |-> IF save = "raise_partial" THEN files \cup {path} ELSE files]
         ELSE IF ~ext.ok
         THEN [code |-> 500, body |-> ErrorBody("extraction failed"),
               log |-> <<"save", "extract_raise">>, prompt |-> EmptyDict,
               uploads |-> files \cup {path}]
         ELSE analyze_tail("document", ext.text, analysis_type, filename, llm,
                           <<"save", "extract">>)
              @@ [uploads |-> files \cup {path}]

DocumentRequests ==
    {[has_document |-> FALSE, filename |-> << >>, form |-> EmptyDict]}
    \cup [has_document : {TRUE}, filename : FileNames,
          form : {EmptyDict, [analysis_type |-> "compliance"]}]

\* The outcomes of one request.  A call that an earlier failure prevents has
\* no outcome to draw: it is fixed to the first one.
NotExtracted == [ok |-> FALSE, text |-> << >>]

DocumentOutcomes ==
    {o \in [uuid : Uuids, save : SaveOutcomes, ext : ExtractOutcomes, llm : LlmOutcomes] :
        /\ o.save # "ok" => o.ext = NotExtracted
        /\ ~o.ext.ok => o.llm = "ok"}

\* (a request rejected by the checks draws no uuid and reaches no collaborator)
analyze_document ==
    \E req \in DocumentRequests :
      \E o \in IF check_upload(req) = "ok" THEN DocumentOutcomes
                ELSE {[uuid |-> 1, save |-> "ok", ext |-> NotExtracted, llm |-> "ok"]} :
        LET r == analyze_document_result(req, o.uuid, o.save, o.ext, o.llm, uploads)
        IN /\ Cardinality(r.uploads) <= MaxUploads
           /\ uploads' = r.uploads
           /\ last' = [endpoint |-> "analyze-document", request |-> req,
                       code |-> r.code, body |-> r.body, log |-> r.log,
                       prompt |-> r.prompt]
           /\ UNCHANGED <<session, fb, users, vtext, vtype, vreport, vprev,
                       inflight, disk, signins>>


FIELD_PARTY_NAME == <<"p","a","r","t","y","-","n","a","m","e">>

(***************************************************************************)
(* analyze_text (src/app.py:211-248).                                      *)
(***************************************************************************)
analyze_text_result(req, llm) ==
    IF NotData(req) \/ "text" \notin DOMAIN req.json
    THEN Reject(400, "No text provided for analysis")
    ELSE analyze_tail("legal text", req.json["text"],
                      Get(req.json, "analysis_type", "summary"), "Text Input", llm, << >>)

TextBodies ==
    {EmptyDict, [analysis_type |-> "summary"]}
    \cup {[text |-> t] : t \in Texts}
    \cup {[text |-> t, analysis_type |-> a] : t \in Texts, a \in AnalysisTypes}

TextRequests ==
    {[has_json |-> FALSE, json |-> EmptyDict]}
    \cup {[has_json |-> TRUE, json |-> j] : j \in TextBodies}

analyze_text ==
    \E req \in TextRequests, llm \in LlmOutcomes :
        LET r == analyze_text_result(req, llm)
        IN /\ last' = [endpoint |-> "analyze-text", request |-> req,
                       code |-> r.code, body |-> r.body, log |-> r.log,
                       prompt |-> r.prompt]
           /\ UNCHANGED <<uploads, session, fb, users, vtext, vtype, vreport, vprev,
                       inflight, disk, signins>>

(***************************************************************************)
(* generate_document (src/app.py:409-465).                                 *)
(***************************************************************************)
IsLetter(c) == c \in LowerSet \cup UpperSet

\* str.title(): a letter after a non-letter is upper-cased, the others lower-cased
Title(s) ==
    [i \in 1..Len(s) |->
        IF i = 1 \/ ~IsLetter(s[i-1]) THEN UpperChar(s[i]) ELSE LowerChar(s[i])]

\* field_name.replace('-', ' ').title()
readable_field(field_name) ==
    Title([i \in 1..Len(field_name) |->
              IF field_name[i] = "-" THEN " " ELSE field_name[i]])

DocumentTypes == {"nda", "custom"}

\* the if / elif chain on document_type: which instruction block is appended
instruction_block(document_type) ==
    IF document_type \in {"employment", "nda", "lease", "service", "shareholders"}
    THEN document_type
    ELSE "generic"

generate_document_result(req, llm) ==
    IF NotData(req) \/ "documentType" \notin DOMAIN req.json
                    \/ "fields" \notin DOMAIN req.json
    THEN Reject(400, "Missing required data for document generation")
    ELSE
      LET document_type == req.json["documentType"]
          fields == req.json["fields"]
      IN IF ~fields.is_dict
         THEN \* fields.items() raises AttributeError
              [code |-> 500, body |-> ErrorBody("fields.items"),
               log |-> << >>, prompt |-> EmptyDict]
         ELSE
           LET prompt ==
                 [document_type |-> document_type,
                  lines |-> [i \in 1..Len(fields.items) |->
                               <<readable_field(fields.items[i][1]), fields.items[i][2]>>],
                  block |-> instruction_block(document_type)]
           IN IF llm = "raise"
              THEN [code |-> 500, body |-> ErrorBody("upstream"),
                    log |-> <<"llm_call", "llm_raise">>, prompt |-> prompt]
              ELSE [code |-> 200,
                    body |-> [status |-> "success",
                              document_type |-> document_type,
                              document |-> LLM_TEXT,
                              timestamp |-> "now"],
                    log |-> <<"llm_call", "llm_return">>, prompt |-> prompt]

FieldValues ==
    {[is_dict |-> TRUE, items |-> << >>],
     [is_dict |-> TRUE, items |-> << <<FIELD_PARTY_NAME, "Acme">> >>],
     [is_dict |-> FALSE, items |-> << >>]}

GenerateBodies ==
    {EmptyDict}
    \cup {[documentType |-> d] : d \in DocumentTypes}
    \cup {[fields |-> f] : f \in FieldValues}
    \cup {[documentType |-> d, fields |-> f] :
             d \in DocumentTypes \cup {"will"}, f \in FieldValues}

GenerateRequests ==
    {[has_json |-> FALSE, json |-> EmptyDict]}
    \cup {[has_json |-> TRUE, json |-> j] : j \in GenerateBodies}

generate_document ==
    \E req \in GenerateRequests, llm \in LlmOutcomes :
        LET r == generate_document_result(req, llm)
        IN /\ last' = [endpoint |-> "generate-document", request |-> req,
                       code |-> r.code, body |-> r.body, log |-> r.log,
                       prompt |-> r.prompt]
           /\ UNCHANGED <<uploads, session, fb, users, vtext, vtype, vreport, vprev,
                       inflight, disk, signins>>


(***************************************************************************)
(* firebase_config.py: the module globals and initialize_firebase.         *)
(* The environment decides how far initialization gets.                    *)
(***************************************************************************)
FirebaseEnvs ==
    {"module_absent",      \* import firebase_config raises ImportError
     "no_admin_package",   \* find_spec("firebase_admin") is None
     "key_truncated",      \* serviceAccountKey.json with a short private_key
     "key_invalid",        \* serviceAccountKey.json is not valid JSON
     "no_credentials",     \* no key file and ApplicationDefault() raises
     "init_app_raises",    \* initialize_app raises
     "bucket_raises",      \* firestore.client() returned, storage.bucket() raises
     "ok"}

\* the globals as the module body sets them before initialize_firebase runs
FirebaseGlobals0 ==
    [firebase_app |-> None, db |-> None, bucket |-> None,
     firebase_initialized |-> FALSE, client_side_only_mode |-> FALSE]

\* initialize_firebase(): the globals afterwards and the returned triple
initialize_firebase(g, env) ==
    IF g.firebase_initialized
    THEN [g |-> g, ret |-> <<g.firebase_app, g.db, g.bucket>>]
    ELSE IF env \in {"no_admin_package", "key_truncated", "key_invalid",
                     "no_credentials", "init_app_raises"}
    THEN [g |-> [g EXCEPT !.client_side_only_mode = TRUE],
          ret |-> <<None, None, None>>]
    ELSE IF env = "bucket_raises"
    THEN [g |-> [g EXCEPT !.firebase_app = "app", !.db = "db",
                          !.client_side_only_mode = TRUE],
          ret |-> <<None, None, None>>]
    ELSE [g |-> [g EXCEPT !.firebase_app = "app", !.db = "db", !.bucket = "bucket",
                          !.firebase_initialized = TRUE],
          ret |-> <<"app", "db", "bucket">>]

\* module load that calls initialize_firebase() and drops what it returns
load_firebase_config_keep_globals(env) ==
    initialize_firebase(FirebaseGlobals0, env).g

\* module load: firebase_app, db, bucket = initialize_firebase()
load_firebase_config(env) ==
    LET r == initialize_firebase(FirebaseGlobals0, env)
    IN [r.g EXCEPT !.firebase_app = r.ret[1], !.db = r.ret[2], !.bucket = r.ret[3]]

\* the state of the variable fb after app.py's `import firebase_config`
FirebaseAfterImport(env) ==
    IF env = "module_absent"
    THEN [loaded |-> FALSE, env |-> env, g |-> FirebaseGlobals0]
    ELSE [loaded |-> TRUE, env |-> env, g |-> load_firebase_config(env)]

\* get_firestore_db(): the globals afterwards and the returned handle
get_firestore_db(f) ==
    IF ~f.g.firebase_initialized /\ ~f.g.client_side_only_mode
    THEN LET r == initialize_firebase(f.g, f.env)
         IN [g |-> [r.g EXCEPT !.db = r.ret[2]], ret |-> r.ret[2]]
    ELSE [g |-> f.g, ret |-> f.g.db]

\* the test of lines 100, 107 and 113 that leads a getter to initialize_firebase()
needs_initialization(f) ==
    ~f.g.firebase_initialized /\ ~f.g.client_side_only_mode

\* get_storage_bucket(): the globals afterwards and the returned handle
get_storage_bucket(f) ==
    IF needs_initialization(f)
    THEN LET r == initialize_firebase(f.g, f.env)
         IN [g |-> [r.g EXCEPT !.bucket = r.ret[3]], ret |-> r.ret[3]]
    ELSE [g |-> f.g, ret |-> f.g.bucket]

\* get_firebase_auth(): the globals afterwards and the auth module, or None
\* when firebase_admin cannot be imported
get_firebase_auth(f) ==
    [g |-> IF needs_initialization(f) THEN initialize_firebase(f.g, f.env).g
           ELSE f.g,
     ret |-> IF f.env = "no_admin_package" THEN None ELSE "auth"]

is_firebase_initialized(f) == f.g.firebase_initialized

is_client_side_only_mode(f) == f.g.client_side_only_mode

(***************************************************************************)
(* The Firestore collection 'users'.  A document that does not exist is    *)
(* NoDoc; update() on it raises NotFound.                                  *)
(***************************************************************************)
Uids == {"u1", "u2"}

NoDoc == [exists |-> FALSE, loginCount |-> 0, createdAt |-> None,
          history |-> FALSE, lastLogout |-> None]

\* each store call of a request either returns or raises
\* (get: user_ref.get(); snap: user_doc.get('loginCount', 0); write: update()
\* or set() of the user document; history: set() of the history info record)
\* A call that an earlier exception prevents has no outcome to draw.
StoreOutcomes ==
    {so \in [get : {"ok", "raise"}, snap : {"ok", "raise"},
             write : {"ok", "raise"}, history : {"ok", "raise"}] :
        /\ so.get = "raise" => so.snap = "ok"
        /\ (so.get = "raise" \/ so.snap = "raise") => so.write = "ok"
        /\ (so.get = "raise" \/ so.snap = "raise" \/ so.write = "raise")
               => so.history = "ok"}


(***************************************************************************)
(* auth_signin (src/app.py:250-365).  The result is the response, the      *)
(* events of the request, and session, store and module globals afterwards.*)
(***************************************************************************)
\* `not uid`
NotUid(uid) == uid = None \/ uid = ""

\* lines 283-342: the best-effort mirror of the sign-in into Firestore.
\* ok is firestore_success; an exception raised inside is caught at 341.
store_signin(f, docs, uid, so) ==
    IF ~f.loaded
    THEN [ok |-> FALSE, log |-> << >>, users |-> docs, g |-> f.g]
    ELSE IF ~(is_firebase_initialized(f) /\ ~is_client_side_only_mode(f))
    THEN [ok |-> FALSE, log |-> << >>, users |-> docs, g |-> f.g]
    ELSE
      LET dbr == get_firestore_db(f)
      IN IF dbr.ret = None
         THEN [ok |-> FALSE, log |-> << >>, users |-> docs, g |-> dbr.g]
         ELSE IF so.get = "raise"
         THEN [ok |-> FALSE, log |-> <<"store_get_raise">>, users |-> docs, g |-> dbr.g]
         ELSE IF docs[uid].exists
         THEN IF so.snap = "raise"
              THEN [ok |-> FALSE, log |-> <<"store_get", "snapshot_get_raise">>,
                    users |-> docs, g |-> dbr.g]
              ELSE IF so.write = "raise"
              THEN [ok |-> FALSE, log |-> <<"store_get", "store_update_raise">>,
                    users |-> docs, g |-> dbr.g]
              ELSE [ok |-> TRUE, log |-> <<"store_get", "store_update">>,
                    users |-> [docs EXCEPT ![uid].loginCount = @ + 1],
                    g |-> dbr.g]
         ELSE IF so.write = "raise"
              THEN [ok |-> FALSE, log |-> <<"store_get", "store_set_raise">>,
                    users |-> docs, g |-> dbr.g]
              ELSE LET created == [docs EXCEPT ![uid] =
                                     [exists |-> TRUE, loginCount |-> 1,
                                      createdAt |-> "now", history |-> FALSE,
                                      lastLogout |-> None]]
                   IN IF so.history = "raise"
                      THEN [ok |-> FALSE,
                            log |-> <<"store_get", "store_set", "history_set_raise">>,
                            users |-> created, g |-> dbr.g]
                      ELSE [ok |-> TRUE,
                            log |-> <<"store_get", "store_set", "history_set">>,
                            users |-> [created EXCEPT ![uid].history = TRUE],
                            g |-> dbr.g]

\* a store exception is not caught inside the handler and reaches line 360
auth_signin_surfacing(req, so, sess, f, docs) ==
    IF NotData(req)
    THEN Reject(400, "No user data provided")
         @@ [session |-> sess, users |-> docs, g |-> f.g]
    ELSE
      LET uid == Get(req.json, "uid", None)
          st == store_signin(f, docs, uid, so)
          s5 == Put(Put(Put(Put(Put(Put(sess, "user_id", uid),
                    "email", Get(req.json, "email", None)),
                    "display_name", Get(req.json, "displayName", None)),
                    "photo_url", Get(req.json, "photoURL", None)),
                    "logged_in", TRUE),
                    "login_time", "now")
      IN IF NotUid(uid)
         THEN Reject(400, "User ID is required")
              @@ [session |-> sess, users |-> docs, g |-> f.g]
         ELSE IF ~st.ok /\ st.log # << >>
         THEN [code |-> 500, body |-> ErrorBody("authentication"), log |-> st.log,
               prompt |-> EmptyDict, session |-> s5, users |-> st.users, g |-> st.g]
         ELSE [code |-> 200,
               body |-> [status |-> "success",
                         message |-> "User signed in successfully",
                         user |-> [uid |-> uid,
                                   email |-> Get(req.json, "email", None),
                                   displayName |-> Get(req.json, "displayName", None)]],
               log |-> st.log, prompt |-> EmptyDict,
               session |-> IF ~st.ok /\ "user_history" \notin DOMAIN s5
                           THEN Put(s5, "user_history", << >>) ELSE s5,
               users |-> st.users, g |-> st.g]

\* the session is written before uid is checked
auth_signin_early_write(req, so, sess, f, docs) ==
    IF NotData(req)
    THEN Reject(400, "No user data provided")
         @@ [session |-> sess, users |-> docs, g |-> f.g]
    ELSE
      LET uid == Get(req.json, "uid", None)
          st == store_signin(f, docs, uid, so)
          s5 == Put(Put(Put(Put(Put(Put(sess, "user_id", uid),
                    "email", Get(req.json, "email", None)),
                    "display_name", Get(req.json, "displayName", None)),
                    "photo_url", Get(req.json, "photoURL", None)),
                    "logged_in", TRUE),
                    "login_time", "now")
      IN IF NotUid(uid)
         THEN Reject(400, "User ID is required")
              @@ [session |-> s5, users |-> docs, g |-> f.g]
         ELSE [code |-> 200,
               body |-> [status |-> "success",
                         message |-> "User signed in successfully",
                         user |-> [uid |-> uid,
                                   email |-> Get(req.json, "email", None),
                                   displayName |-> Get(req.json, "displayName", None)]],
               log |-> st.log, prompt |-> EmptyDict,
               session |-> IF ~st.ok /\ "user_history" \notin DOMAIN s5
                           THEN Put(s5, "user_history", << >>) ELSE s5,
               users |-> st.users, g |-> st.g]

auth_signin_result(req, so, sess, f, docs) ==
    IF NotData(req)
    THEN Reject(400, "No user data provided")
         @@ [session |-> sess, users |-> docs, g |-> f.g]
    ELSE
      LET uid == Get(req.json, "uid", None)
          st == store_signin(f, docs, uid, so)
          s5 == Put(Put(Put(Put(Put(Put(sess, "user_id", uid),
                    "email", Get(req.json, "email", None)),
                    "display_name", Get(req.json, "displayName", None)),
                    "photo_url", Get(req.json, "photoURL", None)),
                    "logged_in", TRUE),
                    "login_time", "now")
      IN IF NotUid(uid)
         THEN Reject(400, "User ID is required")
              @@ [session |-> sess, users |-> docs, g |-> f.g]
         ELSE [code |-> 200,
               body |-> [status |-> "success",
                         message |-> "User signed in successfully",
                         user |-> [uid |-> uid,
                                   email |-> Get(req.json, "email", None),
                                   displayName |-> Get(req.json, "displayName", None)]],
               log |-> st.log, prompt |-> EmptyDict,
               session |-> IF ~st.ok /\ "user_history" \notin DOMAIN s5
                           THEN Put(s5, "user_history", << >>) ELSE s5,
               users |-> st.users, g |-> st.g]

SignInBodies ==
    {EmptyDict,
     [email |-> "e@x"],
     [uid |-> ""],
     [uid |-> "", email |-> "e@x"],
     [uid |-> "u1"],
     [uid |-> "u1", email |-> "e@x", displayName |-> "Eve", photoURL |-> "p.png"],
     [uid |-> "u2", email |-> "e@x"]}

SignInRequests ==
    {[has_json |-> FALSE, json |-> EmptyDict]}
    \cup {[has_json |-> TRUE, json |-> j] : j \in SignInBodies}

auth_signin ==
    \E req \in SignInRequests, so \in StoreOutcomes :
        LET r == auth_signin_result(req, so, session, fb, users)
        IN /\ \A u \in Uids : r.users[u].loginCount <= MaxLogin
           /\ session' = r.session
           /\ users' = r.users
           /\ fb' = [fb EXCEPT !.g = r.g]
           /\ last' = [endpoint |-> "signin", request |-> req,
                       code |-> r.code, body |-> r.body, log |-> r.log,
                       prompt |-> r.prompt]
           /\ UNCHANGED <<uploads, vtext, vtype, vreport, vprev,
                       inflight, disk, signins>>


(***************************************************************************)
(* auth_signout (src/app.py:367-407).  Nothing between the inner try and   *)
(* the return raises, so the handler of line 400 is not entered.           *)
(***************************************************************************)
\* lines 375-391: the best-effort update of the logout time
store_signout(f, docs, user_id, so) ==
    IF ~f.loaded
    THEN [log |-> << >>, users |-> docs, g |-> f.g]
    ELSE IF ~(is_firebase_initialized(f) /\ ~is_client_side_only_mode(f))
    THEN [log |-> << >>, users |-> docs, g |-> f.g]
    ELSE
      LET dbr == get_firestore_db(f)
      IN IF dbr.ret = None
         THEN [log |-> << >>, users |-> docs, g |-> dbr.g]
         ELSE IF so.write = "raise" \/ ~docs[user_id].exists
         THEN [log |-> <<"store_update_raise">>, users |-> docs, g |-> dbr.g]
         ELSE [log |-> <<"store_update">>,
               users |-> [docs EXCEPT ![user_id].lastLogout = "now"],
               g |-> dbr.g]

\* the session is cleared only after a store update that did not raise
auth_signout_clear_on_success(so, sess, f, docs) ==
    LET user_id == Get(sess, "user_id", None)
        st == IF NotUid(user_id)
              THEN [log |-> << >>, users |-> docs, g |-> f.g]
              ELSE store_signout(f, docs, user_id, so)
        failed == st.log = <<"store_update_raise">>
    IN [code |-> IF failed THEN 500 ELSE 200,
        body |-> IF failed THEN ErrorBody("sign out")
                 ELSE [status |-> "success",
                       message |-> "User signed out successfully"],
        log |-> st.log, prompt |-> EmptyDict,
        session |-> IF failed THEN sess ELSE EmptyDict,
        users |-> st.users, g |-> st.g]

auth_signout_result(so, sess, f, docs) ==
    LET user_id == Get(sess, "user_id", None)
        st == IF NotUid(user_id)
              THEN [log |-> << >>, users |-> docs, g |-> f.g]
              ELSE store_signout(f, docs, user_id, so)
    IN [code |-> 200,
        body |-> [status |-> "success", message |-> "User signed out successfully"],
        log |-> st.log, prompt |-> EmptyDict,
        session |-> EmptyDict,
        users |-> st.users, g |-> st.g]

auth_signout ==
    \E so \in StoreOutcomes :
        LET r == auth_signout_result(so, session, fb, users)
        IN /\ session' = r.session
           /\ users' = r.users
           /\ fb' = [fb EXCEPT !.g = r.g]
           /\ last' = [endpoint |-> "signout",
                       request |-> [session |-> session, store |-> so],
                       code |-> r.code, body |-> r.body, log |-> r.log,
                       prompt |-> r.prompt]
           /\ UNCHANGED <<uploads, vtext, vtype, vreport, vprev,
                       inflight, disk, signins>>

(***************************************************************************)
(* The validator applied to texts of every length up to MaxPad and more:   *)
(* a phrase followed by filler.                                            *)
(***************************************************************************)
ValidatorTexts == {ph \o Pad(n) : ph \in Phrases, n \in 0..MaxPad}

NoReport == [compliance_status |-> "none", compliance_score |-> 0,
             legal_terms_found |-> << >>, red_flags_count |-> 0]

NoPrev == [set |-> FALSE, length |-> 0, type |-> "none", score |-> 0]

\* a first call on the drawn input
Validate ==
    /\ vreport = NoReport
    /\ vreport' = get_legal_bert_validation(vtext, vtype)
    /\ UNCHANGED <<uploads, last, session, fb, users, vtext, vtype, vprev,
                 inflight, disk, signins>>

\* a second call, on another text of the same length modulo 100
ValidateAgain ==
    /\ vreport # NoReport
    /\ ~vprev.set
    /\ \E t \in ValidatorTexts, a \in AnalysisTypes :
          /\ Len(t) % 100 = Len(vtext) % 100
          /\ <<t, a>> # <<vtext, vtype>>
          /\ vprev' = [set |-> TRUE, length |-> Len(vtext), type |-> vtype,
                       score |-> vreport.compliance_score]
          /\ vtext' = t
          /\ vtype' = a
          /\ vreport' = get_legal_bert_validation(t, a)
    /\ UNCHANGED <<uploads, last, session, fb, users, inflight, disk, signins>>

(***************************************************************************)
(* analyze_document under concurrent requests (src/app.py:149-209).  Flask *)
(* runs each request in its own thread; the handler takes no lock, so the  *)
(* steps of different requests interleave at every call that touches the   *)
(* upload folder or a collaborator.  uuid.uuid4() returns 122 random bits: *)
(* a value it has returned is not returned again.                          *)
(***************************************************************************)
Clients == 1..MaxClients

NoPath == <<0, << >>>>

NoFile == [owner |-> 0, text |-> << >>, complete |-> FALSE]

IdleUpload ==
    [pc |-> "idle", request |-> EmptyDict, text |-> << >>, uuid |-> 0,
     path |-> NoPath, seen |-> NoFile, code |-> 0]

\* the uploads that concurrent clients send: a file name and the text the
\* file holds
UploadRequests ==
    {r \in DocumentRequests :
        /\ r.has_document
        /\ r.form = EmptyDict
        /\ r.filename \in {FN_UPPER_TXT, FN_DOT_DOCX, FN_EXE}}

\* the uuid4 values already handed out
IssuedUuids == {inflight[d].uuid : d \in Clients} \ {0}

\* lines 153-179: the checks, secure_filename, and the path with a new uuid
upload_begin ==
    \E c \in Clients, req \in UploadRequests, t \in Texts :
        /\ inflight[c].pc = "idle"
        /\ IF check_upload(req) # "ok"
           THEN inflight' = [inflight EXCEPT ![c].pc = "done",
                                             ![c].request = req,
                                             ![c].code = 400]
           ELSE \E u \in Uuids \ IssuedUuids :
                  inflight' = [inflight EXCEPT
                      ![c].pc = "save",
                      ![c].request = req,
                      ![c].text = t,
                      ![c].uuid = u,
                      ![c].path = file_path(u, secure_filename(req.filename))]
        /\ UNCHANGED <<uploads, last, session, fb, users, vtext, vtype, vreport,
                       vprev, disk, signins>>

\* line 180: file.save(file_path) creates or truncates the file at the path
upload_save ==
    \E c \in Clients, o \in SaveOutcomes :
        LET me == inflight[c]
            written == [owner |-> c, text |-> me.text, complete |-> o = "ok"]
        IN /\ me.pc = "save"
           /\ disk' = IF o = "raise" THEN disk ELSE Put(disk, me.path, written)
           /\ uploads' = IF o = "raise" THEN uploads ELSE uploads \cup {me.path}
           /\ inflight' = IF o = "ok"
                          THEN [inflight EXCEPT ![c].pc = "extract"]
                          ELSE [inflight EXCEPT ![c].pc = "done", ![c].code = 500]
           /\ UNCHANGED <<last, session, fb, users, vtext, vtype, vreport, vprev,
                          signins>>

\* line 183: extract_text_from_document(file_path) reads the file at the path
upload_extract ==
    \E c \in Clients, ok \in {e.ok : e \in ExtractOutcomes} :
        LET me == inflight[c]
        IN /\ me.pc = "extract"
           /\ inflight' = IF ok
                          THEN [inflight EXCEPT ![c].pc = "analyze",
                                                ![c].seen = disk[me.path]]
                          ELSE [inflight EXCEPT ![c].pc = "done", ![c].code = 500]
           /\ UNCHANGED <<uploads, last, session, fb, users, vtext, vtype, vreport,
                          vprev, disk, signins>>

\* lines 186-209: the analysis of the extracted text and the response
upload_respond ==
    \E c \in Clients, llm \in LlmOutcomes :
        LET me == inflight[c]
            r == analyze_tail("document", me.seen.text,
                              Get(me.request.form, "analysis_type", "summary"),
                              secure_filename(me.request.filename), llm,
                              <<"save", "extract">>)
        IN /\ me.pc = "analyze"
           /\ inflight' = [inflight EXCEPT ![c].pc = "done", ![c].code = r.code]
           /\ UNCHANGED <<uploads, last, session, fb, users, vtext, vtype, vreport,
                          vprev, disk, signins>>

(***************************************************************************)
(* auth_signin under concurrent requests (src/app.py:250-365).  The store  *)
(* block reads the user document (user_ref.get(), 304-305) and writes it   *)
(* in a later call (update() at 318 or set() at 324), with no transaction: *)
(* the steps of different requests interleave at every store call.  Each   *)
(* client has its own session cookie.                                      *)
(***************************************************************************)
IdleSignIn ==
    [pc |-> "idle", uid |-> None, snap |-> NoDoc, written |-> FALSE,
     firestore_success |-> FALSE, session |-> EmptyDict, code |-> 0]

\* the write is made from the document as it is in the store at the write
upsert_user_atomic(docs, uid, snap) ==
    IF docs[uid].exists
    THEN [docs EXCEPT ![uid].loginCount = @ + 1]
    ELSE [docs EXCEPT ![uid] = [exists |-> TRUE, loginCount |-> 1,
                                createdAt |-> "now", history |-> docs[uid].history,
                                lastLogout |-> None]]

\* lines 307-324: the users collection after the write that follows a read
\* which returned snap: update() with loginCount taken from the snapshot, or
\* set() of a new document (the history info record is another document)
upsert_user(docs, uid, snap) ==
    IF snap.exists
    THEN [docs EXCEPT ![uid].loginCount = snap.loginCount + 1]
    ELSE [docs EXCEPT ![uid] = [exists |-> TRUE, loginCount |-> 1,
                                createdAt |-> "now", history |-> docs[uid].history,
                                lastLogout |-> None]]

\* lines 274-279: the session after the sign-in of the user in json
signin_session(sess, json) ==
    Put(Put(Put(Put(Put(Put(sess, "user_id", Get(json, "uid", None)),
        "email", Get(json, "email", None)),
        "display_name", Get(json, "displayName", None)),
        "photo_url", Get(json, "photoURL", None)),
        "logged_in", TRUE),
        "login_time", "now")

\* lines 344-358: the handler leaves the store block and answers 200
signin_finish(me, success) ==
    [me EXCEPT !.pc = "done", !.code = 200, !.firestore_success = success,
               !.session = IF ~success /\ "user_history" \notin DOMAIN @
                           THEN Put(@, "user_history", << >>) ELSE @]

RaceBodies == {[uid |-> ""]} \cup {[uid |-> u] : u \in Uids}

\* lines 252-290: the checks, the session writes, and the way to the store
signin_begin ==
    \E c \in Clients, j \in RaceBodies :
        LET me == signins[c]
            uid == Get(j, "uid", None)
            dbr == get_firestore_db(fb)
            started == [me EXCEPT !.uid = uid,
                                  !.session = signin_session(@, j)]
        IN /\ me.pc = "idle"
           /\ IF NotUid(uid)
              THEN /\ signins' = [signins EXCEPT ![c].pc = "done", ![c].code = 400]
                   /\ fb' = fb
              ELSE IF ~(fb.loaded /\ is_firebase_initialized(fb)
                                  /\ ~is_client_side_only_mode(fb))
              THEN /\ signins' = [signins EXCEPT ![c] = signin_finish(started, FALSE)]
                   /\ fb' = fb
              ELSE /\ signins' = [signins EXCEPT ![c] =
                          IF dbr.ret = None THEN signin_finish(started, FALSE)
                          ELSE [started EXCEPT !.pc = "read"]]
                   /\ fb' = [fb EXCEPT !.g = dbr.g]
           /\ UNCHANGED <<uploads, last, session, users, vtext, vtype, vreport,
                          vprev, inflight, disk>>

\* lines 304-305: user_ref.get() returns the document as it is now
signin_read ==
    \E c \in Clients, o \in {"ok", "raise"} :
        LET me == signins[c]
        IN /\ me.pc = "read"
           /\ signins' = [signins EXCEPT ![c] =
                  IF o = "raise" THEN signin_finish(me, FALSE)
                  ELSE [me EXCEPT !.pc = "write", !.snap = users[me.uid]]]
           /\ UNCHANGED <<uploads, last, session, fb, users, vtext, vtype, vreport,
                          vprev, inflight, disk>>

\* lines 307-324: update() of the document that was read, or set() of a new
\* one; on the update path the dict is built first (user_doc.get at 314)
signin_write ==
    \E c \in Clients, so \in {o \in StoreOutcomes : o.get = "ok" /\ o.history = "ok"} :
        LET me == signins[c]
        IN /\ me.pc = "write"
           \* (user_doc.get is called on the update path only)
           /\ so.snap = "raise" => me.snap.exists
           /\ IF so.snap = "raise" \/ so.write = "raise"
              THEN /\ signins' = [signins EXCEPT ![c] = signin_finish(me, FALSE)]
                   /\ users' = users
              ELSE /\ users' = upsert_user(users, me.uid, me.snap)
                   /\ signins' = [signins EXCEPT ![c] =
                          IF me.snap.exists
                          THEN signin_finish([me EXCEPT !.written = TRUE], TRUE)
                          ELSE [me EXCEPT !.pc = "history", !.written = TRUE]]
           /\ UNCHANGED <<uploads, last, session, fb, vtext, vtype, vreport,
                          vprev, inflight, disk>>

\* lines 327-332: set() of the history info record of a new user
signin_history ==
    \E c \in Clients, o \in {"ok", "raise"} :
        LET me == signins[c]
        IN /\ me.pc = "history"
           /\ users' = IF o = "ok" THEN [users EXCEPT ![me.uid].history = TRUE]
                       ELSE users
           /\ signins' = [signins EXCEPT ![c] = signin_finish(me, o = "ok")]
           /\ UNCHANGED <<uploads, last, session, fb, vtext, vtype, vreport,
                          vprev, inflight, disk>>

(***************************************************************************)
(* Specifications.                                                         *)
(***************************************************************************)
\* the server after app.py was imported: empty upload folder, no session,
\* an empty users collection, firebase_config loaded in some environment
ServerInit(envs) ==
    /\ uploads = {}
    /\ last = NoRequest
    /\ session = EmptyDict
    /\ users = [u \in Uids |-> NoDoc]
    /\ fb \in {FirebaseAfterImport(env) : env \in envs}
    /\ inflight = [c \in Clients |-> IdleUpload]
    /\ disk = EmptyDict
    /\ signins = [c \in Clients |-> IdleSignIn]

ValidatorIdle ==
    /\ vtext = TextEmpty
    /\ vtype = "summary"
    /\ vreport = NoReport
    /\ vprev = NoPrev

Init == ServerInit({"module_absent", "ok"}) /\ ValidatorIdle

\* the analysis and generation endpoints
Next == analyze_document \/ analyze_text \/ generate_document

Spec == Init /\ [][Next]_vars

\* the authentication endpoints
NextAuth == auth_signin \/ auth_signout

InitAuth == ServerInit(FirebaseEnvs) /\ ValidatorIdle

SpecAuth == InitAuth /\ [][NextAuth]_vars

\* analyze-document requests handled concurrently
NextUpload == upload_begin \/ upload_save \/ upload_extract \/ upload_respond

InitUpload == ServerInit({"ok"}) /\ ValidatorIdle

SpecUpload == InitUpload /\ [][NextUpload]_vars

\* signIn requests handled concurrently
NextRace == signin_begin \/ signin_read \/ signin_write \/ signin_history

InitRace == ServerInit({"ok", "no_credentials"}) /\ ValidatorIdle

SpecRace == InitRace /\ [][NextRace]_vars

\* the validator as a pure function
InitValidator ==
    /\ ServerInit({"ok"})
    /\ vtext \in ValidatorTexts
    /\ vtype \in AnalysisTypes
    /\ vreport = NoReport
    /\ vprev = NoPrev

NextValidator == Validate \/ ValidateAgain

SpecValidator == InitValidator /\ [][NextValidator]_vars


(***************************************************************************)
(* Properties.                                                             *)
(***************************************************************************)
NoEvent(log, events) == \A i \in 1..Len(log) : log[i] \notin events

HasEvent(log, e) == \E i \in 1..Len(log) : log[i] = e

Count(log, e) == Cardinality({i \in 1..Len(log) : log[i] = e})

\* the file name ends in a dot followed by one of the five allowed extensions,
\* in any letter case
EndsInAllowedExtension(f) ==
    \E e \in {EXT_TXT, EXT_PDF, EXT_DOC, EXT_DOCX, EXT_RTF} :
        /\ Len(f) > Len(e)
        /\ f[Len(f) - Len(e)] = "."
        /\ \A k \in 1..Len(e) : LowerChar(f[Len(f) - Len(e) + k]) = e[k]

\* C1: an upload to /api/analyze-document whose file name does not end in an
\* allowed extension (or has none) is answered 400 with status "error"; the
\* request writes no file to the upload folder and makes no LLM call.
C1_DisallowedUploadRejected ==
    [][(/\ last'.endpoint = "analyze-document"
        /\ last'.request.has_document
        /\ ~EndsInAllowedExtension(last'.request.filename))
       => (/\ last'.code = 400
           /\ last'.body.status = "error"
           /\ uploads' = uploads
           /\ NoEvent(last'.log, {"save", "save_raise", "extract", "llm_call"}))]_vars

\* an .exe upload was rejected while an earlier upload sits in the folder
C1_Witness ==
    /\ last.endpoint = "analyze-document"
    /\ last.request.has_document
    /\ last.request.filename = FN_EXE
    /\ last.code = 400
    /\ uploads # {}

\* C2: a request to /api/analyze-text whose body has `text` equal to the empty
\* string is rejected with 400 and status "error", and no LLM call is made.
C2_EmptyTextRejected ==
    (/\ last.endpoint = "analyze-text"
     /\ last.request.has_json
     /\ "text" \in DOMAIN last.request.json
     /\ Len(last.request.json["text"]) = 0)
    => (/\ last.code = 400
        /\ last.body.status = "error"
        /\ NoEvent(last.log, {"llm_call"}))

\* C3: after signOut the session has no fields, whatever the session was and
\* whatever the store did, and the response is a success, also when the
\* logout update of the store raised.
C3_SignOutClearsSession ==
    last.endpoint = "signout"
    => (/\ DOMAIN session = {}
        /\ last.code = 200
        /\ last.body.status = "success")

\* an authenticated session was signed out while the store update raised
C3_Witness ==
    /\ last.endpoint = "signout"
    /\ "user_id" \in DOMAIN last.request.session
    /\ last.log = <<"store_update_raise">>
    /\ DOMAIN session = {}

\* C4: signIn with a non-empty uid answers 200 success and leaves the session
\* with user_id = uid and logged_in = true in every store condition; a store
\* call that raised never turns a signIn or signOut response into an error.
C4_SignInNeverFailsOnStore ==
    /\ (/\ last.endpoint = "signin"
        /\ "uid" \in DOMAIN last.request.json
        /\ last.request.json["uid"] # "")
       => (/\ last.code = 200
           /\ last.body.status = "success"
           /\ "user_id" \in DOMAIN session
           /\ session["user_id"] = last.request.json["uid"]
           /\ "logged_in" \in DOMAIN session
           /\ session["logged_in"] = TRUE)
    /\ (/\ last.endpoint \in {"signin", "signout"}
        /\ \E i \in 1..Len(last.log) :
              last.log[i] \in {"store_get_raise", "snapshot_get_raise",
                               "store_update_raise", "store_set_raise",
                               "history_set_raise"})
       => (last.code = 200 /\ last.body.status = "success")

\* a sign-in succeeded although the creation of the user record raised
C4_Witness ==
    /\ last.endpoint = "signin"
    /\ last.code = 200
    /\ HasEvent(last.log, "store_set_raise")
    /\ session["user_id"] = "u2"

\* C5: signIn without a uid, or with an empty one (a missing body and an empty
\* body included), answers 400 with status "error", leaves every session
\* field as it was, and makes no store read or write.
C5_SignInWithoutUidChangesNothing ==
    [][(/\ last'.endpoint = "signin"
        /\ \/ "uid" \notin DOMAIN last'.request.json
           \/ last'.request.json["uid"] = "")
       => (/\ last'.code = 400
           /\ last'.body.status = "error"
           /\ session' = session
           /\ users' = users
           /\ last'.log = << >>)]_vars

\* a sign-in with an empty uid was rejected while a user was signed in
C5_Witness ==
    /\ last.endpoint = "signin"
    /\ "uid" \in DOMAIN last.request.json
    /\ last.request.json["uid"] = ""
    /\ last.code = 400
    /\ "user_id" \in DOMAIN session

\* the C6 request: the example text with analysis_type "summary", LLM call returned
C6_Case ==
    /\ last.endpoint = "analyze-text"
    /\ last.request.has_json
    /\ "text" \in DOMAIN last.request.json
    /\ last.request.json["text"] = TextContract
    /\ Get(last.request.json, "analysis_type", "summary") = "summary"
    /\ HasEvent(last.log, "llm_return")

\* C6 as stated: for the example text the response is 200, legal_terms_found
\* includes "agreement", "contract" and "party" in that order, and
\* document_length is the length of the text.
C6_AsStated ==
    C6_Case
    => (/\ last.code = 200
        /\ LET f == last.body.legal_bert_validation.legal_terms_found
           IN \E i, j, k \in 1..Len(f) :
                 /\ i < j /\ j < k
                 /\ f[i] = T_agreement /\ f[j] = T_contract /\ f[k] = T_party
        /\ last.body.document_length = 45)

\* C6 (amended): for the example text the response is 200, legal_terms_found
\* is exactly ["agreement", "contract"] ("party" is not a substring of
\* "parties"), and document_length is 45, the length of the text.
C6_ExampleTerms ==
    C6_Case
    => (/\ last.code = 200
        /\ last.body.status = "success"
        /\ last.body.legal_bert_validation.legal_terms_found
               = <<T_agreement, T_contract>>
        /\ last.body.document_length = 45)

\* the example request was answered
C6_Witness == C6_Case /\ last.code = 200

\* C7: status and red-flag count follow the cut points of the score:
\* score > 0.85 iff valid iff 0 flags; 0.65 < score <= 0.85 iff
\* review_recommended iff 2 flags; score <= 0.65 iff potential_issues iff 5.
C7_StatusFollowsCutPoints ==
    vreport # NoReport
    => LET s == vreport.compliance_score
           st == vreport.compliance_status
           rf == vreport.red_flags_count
       IN /\ rf \in {0, 2, 5}
          /\ st \in {"valid", "review_recommended", "potential_issues"}
          /\ (s > 85) <=> (st = "valid")
          /\ (st = "valid") <=> (rf = 0)
          /\ (65 < s /\ s <= 85) <=> (st = "review_recommended")
          /\ (st = "review_recommended") <=> (rf = 2)
          /\ (s <= 65) <=> (st = "potential_issues")
          /\ (st = "potential_issues") <=> (rf = 5)

\* a score of exactly 0.85 was classified
C7_Witness ==
    /\ vreport # NoReport
    /\ Len(vtext) % 100 = 85
    /\ vreport.compliance_status = "review_recommended"

\* C8: compliance_score is (len mod 100)/100 clamped to [0.35, 0.95]: it lies
\* in that range, two texts of the same length mod 100 get the same score
\* whatever the analysis_type, and the empty text gets 0.35 with status
\* potential_issues.
C8_ScoreIsClampedResidue ==
    vreport # NoReport
    => LET r == Len(vtext) % 100
           s == vreport.compliance_score
       IN /\ 35 <= s /\ s <= 95
          /\ s = (IF r < 35 THEN 35 ELSE IF r > 95 THEN 95 ELSE r)
          /\ (vprev.set => s = vprev.score)
          /\ (Len(vtext) = 0
              => s = 35 /\ vreport.compliance_status = "potential_issues")

\* two texts of different lengths, equal modulo 100, were scored under
\* different analysis types
C8_Witness ==
    /\ vreport # NoReport
    /\ vprev.set
    /\ vprev.length # Len(vtext)
    /\ vprev.type # vtype
    /\ vreport.compliance_score > 35

\* the term occurs in the text, compared letter by letter ignoring case
TermOccurs(t, term) ==
    \E off \in 0..(Len(t) - Len(term)) :
        \A k \in 1..Len(term) : LowerChar(t[off + k]) = term[k]

\* C9: legal_terms_found holds exactly the vocabulary terms that occur in the
\* text as a case-insensitive substring, each once, in vocabulary order.
C9_TermsAreVocabularySubsequence ==
    vreport # NoReport
    => LET f == vreport.legal_terms_found
           Vocabulary == <<T_agreement, T_contract, T_party, T_liability,
                           T_indemnity, T_term, T_clause, T_herein,
                           T_pursuant, T_warrant>>
           pos(term) == CHOOSE j \in 1..10 : Vocabulary[j] = term
       IN /\ \A i \in 1..Len(f) : \E j \in 1..10 : f[i] = Vocabulary[j]
          /\ \A i, j \in 1..Len(f) : i < j => pos(f[i]) < pos(f[j])
          /\ \A j \in 1..10 :
                (\E i \in 1..Len(f) : f[i] = Vocabulary[j])
                <=> TermOccurs(vtext, Vocabulary[j])

\* terms written in upper case and occurring in another order than the
\* vocabulary's were reported in vocabulary order
C9_Witness ==
    /\ vreport # NoReport
    /\ Len(vtext) > Len(TextMixed)
    /\ SubSeq(vtext, 1, Len(TextMixed)) = TextMixed
    /\ vreport.legal_terms_found = <<T_contract, T_party, T_pursuant>>

\* C10: in analyze-document, analyze-text and generate-document a request
\* makes at most one LLM call; when that call raises the response is a 500
\* error envelope and nothing follows the failed call; a success response
\* comes only after the call returned.
C10_SingleLlmCall ==
    last.endpoint \in {"analyze-document", "analyze-text", "generate-document"}
    => (/\ Count(last.log, "llm_call") <= 1
        /\ HasEvent(last.log, "llm_raise")
           => (/\ last.code = 500
               /\ last.body.status = "error"
               /\ last.log[Len(last.log)] = "llm_raise"
               /\ last.log[Len(last.log) - 1] = "llm_call")
        /\ last.code = 200
           => (/\ last.body.status = "success"
               /\ \E i, j \in 1..Len(last.log) :
                     i < j /\ last.log[i] = "llm_call" /\ last.log[j] = "llm_return"))

\* the LLM call of an upload analysis raised
C10_Witness ==
    /\ last.endpoint = "analyze-document"
    /\ last.log = <<"save", "extract", "llm_call", "llm_raise">>
    /\ last.code = 500

\* the clients whose handler has built its path (line 179)
Writers(p) == {c \in Clients : inflight[c].path = p}

\* C11: when analyze-document requests run concurrently, every request writes
\* to a path that no other request writes to, a file on disk is the one its
\* single writer saved and is never overwritten or deleted afterwards, and
\* every request extracts the text of the file it saved itself.
C11_ConcurrentUploadsIsolated ==
    /\ [](/\ \A c, d \in Clients :
                (c # d /\ inflight[c].path # NoPath) =>
                    inflight[c].path # inflight[d].path
          /\ \A p \in DOMAIN disk :
                Writers(p) = {disk[p].owner}
          /\ \A c \in Clients :
                inflight[c].seen # NoFile =>
                    /\ inflight[c].seen.owner = c
                    /\ inflight[c].seen.text = inflight[c].text)
    /\ [][\A p \in DOMAIN disk : p \in DOMAIN disk' /\ disk'[p] = disk[p]]_vars

\* two requests with the same file name were in flight together: the second
\* saved its file after the first had saved and before the first extracted,
\* and both have extracted
C11_Witness ==
    \E c, d \in Clients :
        /\ c # d
        /\ inflight[c].request = inflight[d].request
        /\ inflight[c].pc = "analyze"
        /\ inflight[d].pc = "done" /\ inflight[d].code = 200
        /\ inflight[c].seen.owner = c
        /\ inflight[d].seen.owner = d
        /\ inflight[c].text # inflight[d].text

\* the store is reachable: firebase_config is loaded and initialised
StoreReachable ==
    fb.loaded /\ is_firebase_initialized(fb) /\ ~is_client_side_only_mode(fb)

\* a call to the store (get, update, set) failed during the request
StoreCallFailed(log) ==
    \E i \in 1..Len(log) :
        log[i] \in {"store_get_raise", "store_update_raise", "store_set_raise",
                    "history_set_raise"}

\* C12: with the store reachable and sign-ins handled one after another, the
\* first signIn of a uid creates the user record with loginCount = 1 and
\* createdAt set and creates the history info record, and every later signIn
\* of that uid increments loginCount by exactly 1 and leaves createdAt as it
\* was.
C12_SequentialSignInsCount ==
    [][(/\ last'.endpoint = "signin"
        /\ "uid" \in DOMAIN last'.request.json
        /\ last'.request.json["uid"] \in Uids
        /\ StoreReachable
        /\ ~StoreCallFailed(last'.log))
       => LET uid == last'.request.json["uid"]
          IN IF users[uid].exists
             THEN /\ users'[uid].loginCount = users[uid].loginCount + 1
                  /\ users'[uid].createdAt = users[uid].createdAt
             ELSE /\ users'[uid].exists
                  /\ users'[uid].loginCount = 1
                  /\ users'[uid].createdAt # None
                  /\ users'[uid].history]_vars

\* the sign-ins of uid that have returned after their write of the user
\* document returned
Completed(uid) ==
    {c \in Clients : /\ signins[c].pc = "done"
                     /\ signins[c].uid = uid
                     /\ signins[c].written}

\* C13: the store upsert of signIn is a read followed by a separate write:
\* when two concurrent sign-ins of one uid have read the same loginCount and
\* both have written and returned, the stored loginCount is smaller than the
\* number of completed sign-ins of that uid (an increment is lost), and both
\* have answered 200.
C13_ConcurrentSignInsLoseIncrement ==
    \A c, d \in Clients :
        (/\ c # d
         /\ signins[c].uid = signins[d].uid
         /\ c \in Completed(signins[c].uid)
         /\ d \in Completed(signins[c].uid)
         /\ signins[c].snap.loginCount = signins[d].snap.loginCount
         /\ \A e \in Clients :
               signins[e].uid = signins[c].uid => signins[e].pc = "done")
        => /\ users[signins[c].uid].loginCount < Cardinality(Completed(signins[c].uid))
           /\ signins[c].code = 200
           /\ signins[d].code = 200

\* two sign-ins of u1 both read the user document before either wrote it,
\* both wrote and returned 200: one record, loginCount 1 after two sign-ins
C13_Witness ==
    \E c, d \in Clients :
        /\ c # d
        /\ signins[c].uid = "u1" /\ signins[d].uid = "u1"
        /\ Completed("u1") = {c, d}
        /\ signins[c].snap = signins[d].snap
        /\ signins[c].code = 200 /\ signins[d].code = 200
        /\ signins[c].firestore_success /\ signins[d].firestore_success
        /\ users["u1"].loginCount = 1

\* C14: once firebase_config is loaded, exactly one of firebase_initialized
\* and client_side_only_mode is true and db is set only if
\* firebase_initialized is; hence get_firestore_db, get_storage_bucket and
\* get_firebase_auth never call initialize_firebase again and leave the module
\* globals as they are, and a signIn or signOut that made a store call ran
\* with firebase_initialized true.
C14_LoadedModuleFlags ==
    /\ fb.loaded =>
          /\ fb.g.firebase_initialized # fb.g.client_side_only_mode
          /\ fb.g.db # None => fb.g.firebase_initialized
          /\ ~needs_initialization(fb)
          /\ get_firestore_db(fb) = [g |-> fb.g, ret |-> fb.g.db]
          /\ get_storage_bucket(fb) = [g |-> fb.g, ret |-> fb.g.bucket]
          /\ get_firebase_auth(fb).g = fb.g
    /\ (last.endpoint \in {"signin", "signout"} /\ last.log # << >>) =>
          /\ fb.loaded
          /\ fb.g.firebase_initialized
          /\ ~fb.g.client_side_only_mode

\* a sign-in was answered without a store call where initialize_firebase had
\* created the Firestore client before storage.bucket() raised
C14_Witness ==
    /\ fb.loaded
    /\ fb.env = "bucket_raises"
    /\ fb.g.client_side_only_mode
    /\ fb.g.db = None
    /\ last.endpoint = "signin"
    /\ last.code = 200
    /\ last.log = << >>
    /\ "user_history" \in DOMAIN session

====
